---- MODULE Spec2Model ----
(***************************************************************************)
(* askpdf (src/app.py): a Streamlit script that turns an uploaded PDF into *)
(* a summary, MCQs and a flashcard deck, and pages through the deck.       *)
(*                                                                         *)
(* Streamlit executes the whole script (main) once per user interaction.   *)
(* What survives from one script run to the next is st.session_state, the  *)
(* widget values (uploaded file, slider) and the st.cache_data stores; the *)
(* locals of main() are recomputed by every run.                           *)
(*                                                                         *)
(* Texts are sequences of tokens.  The literals the regular expressions    *)
(* look for ("Front:", "Back:", "|", the section headings) are one token   *)
(* each, " " and "\n" are the whitespace tokens, any other token is a word *)
(* without whitespace.                                                     *)
(***************************************************************************)
EXTENDS Integers, Sequences, FiniteSets, TLC

VARIABLES
    show_answer,          \* st.session_state.show_answer
    current_card_index,   \* st.session_state.current_card_index
    uploaded_file,        \* value of the st.file_uploader widget
    num_questions,        \* value of the "# of MCQs" slider
    extractCache,         \* st.cache_data store of extract_text_from_pdf
    summaryCache,         \* st.cache_data store of summarize_full_text
    pc,                   \* position of the current script run
    trigger,              \* the user interaction that started the current run
    rendered,             \* buttons on screen when the script run has ended
    client,               \* main(): client
    text,                 \* main(): text
    full_summary,         \* main(): full_summary
    prompt,               \* generate_quiz_flashcards(): prompt
    result,               \* main(): result
    flashcards,           \* main(): flashcards
    mcq_section,          \* main(): mcq_section (<<>> is None, <<g>> a match)
    card,                 \* main(): card (<<>> before line 137)
    calls                 \* what the current script run has done so far

vars == <<show_answer, current_card_index, uploaded_file, num_questions,
          extractCache, summaryCache, pc, trigger, rendered, client, text,
          full_summary, prompt, result, flashcards, mcq_section, card, calls>>

session == <<show_answer, current_card_index>>
widgets == <<uploaded_file, num_questions>>
caches  == <<extractCache, summaryCache>>
locals  == <<client, text, full_summary, prompt, result, flashcards,
             mcq_section, card, calls>>

-----------------------------------------------------------------------------
(* Tokens *)

NL    == "\n"
SP    == " "
FRONT == "Front:"
BACK  == "Back:"
BAR   == "|"
H_SUMMARY    == "## Summary"
H_MCQ        == "## Multiple Choice Questions"
H_FLASHCARDS == "## Flashcards"

\* What \s matches, and what str.strip() removes.
IsSpace(c) == c \in {SP, NL}

\* t[a..b-1]
Slice(t, a, b) == IF b <= a THEN <<>> ELSE SubSeq(t, a, b - 1)

\* The number of whitespace tokens of t from position i on.
RECURSIVE WsRun(_, _)
WsRun(t, i) ==
    IF i > Len(t) \/ ~IsSpace(t[i]) THEN 0 ELSE 1 + WsRun(t, i + 1)

Max(S) == CHOOSE x \in S : \A y \in S : y <= x
Min(S) == CHOOSE x \in S : \A y \in S : x <= y

\* The capture kept as matched, without str.strip().
StripNone(s) == s
\* str.strip()
Strip(s) ==
    LET keep == {i \in 1..Len(s) : ~IsSpace(s[i])}
    IN  IF keep = {} THEN <<>> ELSE SubSeq(s, Min(keep), Max(keep))

-----------------------------------------------------------------------------
(* parse_flashcards: re.findall(r"Front:\s*(.*?)\s*\|\s*Back:\s*(.*?)\n",  *)
(* text, re.DOTALL).  The matcher backtracks: a greedy \s* tries its       *)
(* longest run first, a lazy (.*?) its shortest, and with DOTALL the dot   *)
(* matches the newline too.  Each set below holds the positions at which   *)
(* the rest of the pattern can still succeed; the match found is the first *)
(* in the matcher's order of trial: greatest for \s*, least for (.*?).     *)

\* `\n`: the first newline at or after e2 (the lazy capture grows one
\* token at a time), 0 when there is none.
RECURSIVE FirstNewline(_, _)
FirstNewline(t, e2) ==
    IF e2 > Len(t) THEN 0
    ELSE IF t[e2] = NL THEN e2 ELSE FirstNewline(t, e2 + 1)

\* `\s*` after "Back:" at bk: where the second capture may start.
BackStarts(t, bk) ==
    {s2 \in (bk + 1)..(bk + 1 + WsRun(t, bk + 1)) : FirstNewline(t, s2) # 0}

\* `\s*Back:` after "|" at bar: where "Back:" may stand.
BackAt(t, bar) ==
    {bk \in (bar + 1)..(bar + 1 + WsRun(t, bar + 1)) :
        bk <= Len(t) /\ t[bk] = BACK /\ BackStarts(t, bk) # {}}

\* `\s*\|` after the first capture ending before e1: where "|" may stand.
BarAt(t, e1) ==
    {bar \in e1..(e1 + WsRun(t, e1)) :
        bar <= Len(t) /\ t[bar] = BAR /\ BackAt(t, bar) # {}}

\* `(.*?)`: the first position at or after e1 at which the first capture can
\* end and the rest of the pattern match, 0 when there is none.
RECURSIVE FirstFrontEnd(_, _)
FirstFrontEnd(t, e1) ==
    IF e1 > Len(t) + 1 THEN 0
    ELSE IF BarAt(t, e1) # {} THEN e1 ELSE FirstFrontEnd(t, e1 + 1)

\* `\s*` after "Front:" at p: where the first capture may start.
FrontStarts(t, p) ==
    {s1 \in (p + 1)..(p + 1 + WsRun(t, p + 1)) : FirstFrontEnd(t, s1) # 0}

\* The pattern matches at position p.
FlashcardMatches(t, p) ==
    p <= Len(t) /\ t[p] = FRONT /\ FrontStarts(t, p) # {}

\* The match at p: both captures and the position after the match.
FlashcardMatch(t, p) ==
    LET s1  == Max(FrontStarts(t, p))
        e1  == FirstFrontEnd(t, s1)
        bar == Max(BarAt(t, e1))
        bk  == Max(BackAt(t, bar))
        s2  == Max(BackStarts(t, bk))
        e2  == FirstNewline(t, s2)
    IN  [q |-> Slice(t, s1, e1), a |-> Slice(t, s2, e2), end |-> e2 + 1]

\* re.findall: the non-overlapping matches, scanning from position p.
RECURSIVE FindAll(_, _)
FindAll(t, p) ==
    IF p > Len(t) THEN <<>>
    ELSE IF FlashcardMatches(t, p)
         THEN LET m == FlashcardMatch(t, p)
              IN  <<m>> \o FindAll(t, m.end)
         ELSE FindAll(t, p + 1)

parse_flashcards(t) ==
    LET cards == FindAll(t, 1)
    IN  [i \in 1..Len(cards) |->
            [question |-> Strip(cards[i].q), answer |-> Strip(cards[i].a)]]

(* mcq_section: re.search(r"## Multiple Choice Questions\n(.*?)\n##        *)
(* Flashcards", result, re.DOTALL); <<>> is None, <<g>> is group(1).       *)

\* McqEnds looking for "\n## Flashcards" in the whole text, not after p.
McqEndsAnywhere(t, p) ==
    {e \in 1..(Len(t) - 1) : t[e] = NL /\ t[e + 1] = H_FLASHCARDS}

McqEnds(t, p) ==
    {e \in (p + 2)..(Len(t) - 1) : t[e] = NL /\ t[e + 1] = H_FLASHCARDS}

McqStarts(t) ==
    {p \in 1..(Len(t) - 1) : t[p] = H_MCQ /\ t[p + 1] = NL /\ McqEnds(t, p) # {}}

McqSearch(t) ==
    IF McqStarts(t) = {} THEN <<>>
    ELSE LET p == Min(McqStarts(t))
             e == Min(McqEnds(t, p))
         IN  <<Slice(t, p + 2, e)>>

-----------------------------------------------------------------------------
(* STATE MACHINE *)

None == "None"

\* The documents a user can upload: a readable PDF and a byte stream that is
\* no PDF (fitz.open raises on it).
Docs == {"pdf", "notpdf"}
Readable(d) == d = "pdf"
\* The concatenated page texts of a readable document.
PageText(d) == "text of " \o d

\* The "# of MCQs" slider: st.slider("# of MCQs", 3, 10, 5).
MinQuestions     == 3
MaxQuestions     == 10
DefaultQuestions == 5
\* The values the model moves the slider to.
SliderValues == {DefaultQuestions, 7}

\* "5 flashcards" of the prompt.
NumFlashcards == 5

\* session_state as lines 17-20 leave it on the first script run.
InitShowAnswer == FALSE
InitCardIndex  == 0

NoPrompt == [summary |-> <<>>, mcqs |-> 0, flashcards |-> 0]

\* Cache stores are sets of <<key, value>> with one value per key.
Cached(cache, k) == \E e \in cache : e[1] = k
Lookup(cache, k) == (CHOOSE e \in cache : e[1] = k)[2]

-----------------------------------------------------------------------------
(* What the completion service may answer *)

\* A flashcard line without its newline.
CardLine(q, a) == <<FRONT, SP>> \o q \o <<SP, BAR, SP, BACK, SP>> \o a

RECURSIVE JoinLines(_)
JoinLines(ls) ==
    IF ls = <<>> THEN <<>>
    ELSE IF Len(ls) = 1 THEN ls[1]
    ELSE ls[1] \o <<NL>> \o JoinLines(Tail(ls))

\* A text that follows the template of the prompt (lines 75-84): the three
\* headings in order, the MCQ lines mcq, the flashcard lines cards, and a
\* final newline or none.
Template(summary, mcq, gap, cards, finalNewline) ==
    <<H_SUMMARY, NL>> \o summary \o <<NL, NL, H_MCQ, NL>> \o mcq
        \o <<NL>> \o gap \o <<H_FLASHCARDS, NL>> \o JoinLines(cards)
        \o (IF finalNewline THEN <<NL>> ELSE <<>>)

FiveCards ==
    <<CardLine(<<"q1">>, <<"a1">>), CardLine(<<"q2">>, <<"a2">>),
      CardLine(<<"q3">>, <<"a3">>), CardLine(<<"q4">>, <<"a4">>),
      CardLine(<<"q5">>, <<"a5">>)>>

\* The literal of the specification's round-trip property (two cards).
TwoCardText ==
    <<H_SUMMARY, NL, "X", NL, NL, H_MCQ, NL, "Q1", NL, H_FLASHCARDS, NL>>
        \o CardLine(<<"A">>, <<"B">>) \o <<NL>>
        \o CardLine(<<"C">>, <<"D">>) \o <<NL>>

\* The completions the model lets the generation call return.
Completions ==
    { Template(<<"S">>, <<"Q1">>, <<NL>>, FiveCards, TRUE),
      Template(<<"S">>, <<"Q1">>, <<NL>>, FiveCards, FALSE),
      TwoCardText,
      <<H_SUMMARY, NL, "S", NL>> }

\* The longest exception message of the model, in tokens.
MaxErrLen == 1
ErrTokens == {"E", SP, NL, BAR}
RECURSIVE SeqsUpTo(_, _)
SeqsUpTo(S, n) ==
    IF n = 0 THEN {<<>>}
    ELSE LET shorter == SeqsUpTo(S, n - 1)
         IN  shorter \cup {Append(x, c) : x \in {y \in shorter : Len(y) = n - 1}, c \in S}
\* str(e) of an exception of the completion service.
ErrMsgs == SeqsUpTo(ErrTokens, MaxErrLen) \ {<<>>}

\* f"Error generating quiz: {e}"
QuizError(e) == <<"Error", SP, "generating", SP, "quiz:", SP>> \o e
\* f"Error summarizing full text: {e}"
SummaryError(e) == <<"Error summarizing full text: ", e>>
\* response.choices[0].message.content of the summarization call
SummaryOf(t) == <<"Summary", t>>

-----------------------------------------------------------------------------
(* One script run of main(), stage by stage *)

\* A new script run starts (a user interaction, or st.rerun()): the locals
\* of main() are fresh, session_state, the widgets and the caches persist.
StartRun(trig) ==
    /\ pc' = "client"
    /\ trigger' = trig
    /\ rendered' = {}
    /\ client' = "unset"
    /\ text' = "unset"
    /\ full_summary' = <<>>
    /\ prompt' = NoPrompt
    /\ result' = <<>>
    /\ flashcards' = <<>>
    /\ mcq_section' = <<>>
    /\ card' = <<>>
    /\ calls' = <<>>

\* The script run ends with `buttons` on screen.
EndRun(buttons) ==
    /\ pc' = "idle"
    /\ rendered' = buttons

\* An exception leaves main(): Streamlit shows it and the run is over.
Crash ==
    /\ pc' = "crashed"
    /\ rendered' = {}

Init ==
    /\ show_answer = InitShowAnswer
    /\ current_card_index = InitCardIndex
    /\ uploaded_file = None
    /\ num_questions = DefaultQuestions
    /\ extractCache = {}
    /\ summaryCache = {}
    /\ pc = "client"
    /\ trigger = "none"
    /\ rendered = {}
    /\ client = "unset"
    /\ text = "unset"
    /\ full_summary = <<>>
    /\ prompt = NoPrompt
    /\ result = <<>>
    /\ flashcards = <<>>
    /\ mcq_section = <<>>
    /\ card = <<>>
    /\ calls = <<>>

\* get_openai_client(): None without an API key or when OpenAI() raises.
get_openai_client(api_key, constructed) ==
    IF ~api_key THEN "None"
    ELSE IF constructed THEN "OpenAI" ELSE "None"

\* The test of line 117 without the client.
GateFileOnly(file, cl) == file # None
\* `if uploaded_file and client:`
Gate(file, cl) == file # None /\ cl # "None"

\* Line 108 and the test of line 117.
GetClient ==
    /\ pc = "client"
    /\ \E api_key \in BOOLEAN, constructed \in BOOLEAN :
          client' = get_openai_client(api_key, constructed)
    /\ IF Gate(uploaded_file, client')
       THEN pc' = "extract" /\ UNCHANGED rendered
       ELSE EndRun({})
    /\ UNCHANGED <<session, widgets, caches, trigger, text, full_summary,
                   prompt, result, flashcards, mcq_section, card, calls>>

\* Extract without @st.cache_data: every run reads the stream.
ExtractUncached ==
    /\ pc = "extract"
    /\ text' = IF Readable(uploaded_file) THEN PageText(uploaded_file) ELSE ""
    /\ calls' = calls \o <<"extract", "extract:read">>
                  \o (IF Readable(uploaded_file) THEN <<>> ELSE <<"extract:error">>)
    /\ extractCache' = extractCache \cup {<<uploaded_file, text'>>}
    /\ pc' = "summarize"
    /\ UNCHANGED <<session, widgets, summaryCache, trigger, rendered, client,
                   full_summary, prompt, result, flashcards, mcq_section, card>>

\* extract_text_from_pdf(uploaded_file), memoized by st.cache_data.
Extract ==
    /\ pc = "extract"
    /\ IF Cached(extractCache, uploaded_file)
       THEN /\ text' = Lookup(extractCache, uploaded_file)
            /\ calls' = Append(calls, "extract")
            /\ UNCHANGED extractCache
       ELSE /\ text' = IF Readable(uploaded_file) THEN PageText(uploaded_file) ELSE ""
            /\ calls' = calls \o <<"extract", "extract:read">>
                          \o (IF Readable(uploaded_file) THEN <<>> ELSE <<"extract:error">>)
            /\ extractCache' = extractCache \cup {<<uploaded_file, text'>>}
    /\ pc' = "summarize"
    /\ UNCHANGED <<session, widgets, summaryCache, trigger, rendered, client,
                   full_summary, prompt, result, flashcards, mcq_section, card>>

\* Summarize without the `except` of lines 59-60: the exception leaves main().
SummarizeRaising ==
    /\ pc = "summarize"
    /\ IF Cached(summaryCache, text)
       THEN /\ full_summary' = Lookup(summaryCache, text)
            /\ calls' = Append(calls, "summarize")
            /\ pc' = "generate"
            /\ UNCHANGED <<summaryCache, rendered>>
       ELSE \/ /\ full_summary' = SummaryOf(text)
               /\ calls' = calls \o <<"summarize", "summarize:request">>
               /\ summaryCache' = summaryCache \cup {<<text, full_summary'>>}
               /\ pc' = "generate"
               /\ UNCHANGED rendered
            \/ /\ calls' = calls \o <<"summarize", "summarize:request", "summarize:error">>
               /\ Crash
               /\ UNCHANGED <<full_summary, summaryCache>>
    /\ UNCHANGED <<session, widgets, extractCache, trigger, client,
                   text, prompt, result, flashcards, mcq_section, card>>

\* Summarize keeping only the summaries in the store, not the error strings.
SummarizeErrorsNotCached ==
    /\ pc = "summarize"
    /\ IF Cached(summaryCache, text)
       THEN /\ full_summary' = Lookup(summaryCache, text)
            /\ calls' = Append(calls, "summarize")
            /\ UNCHANGED summaryCache
       ELSE /\ \E ok \in BOOLEAN :
                 /\ full_summary' = IF ok THEN SummaryOf(text) ELSE SummaryError("E")
                 /\ calls' = calls \o <<"summarize", "summarize:request">>
                               \o (IF ok THEN <<>> ELSE <<"summarize:error">>)
                 /\ summaryCache' = IF ok THEN summaryCache \cup {<<text, full_summary'>>}
                                    ELSE summaryCache
    /\ pc' = "generate"
    /\ UNCHANGED <<session, widgets, extractCache, trigger, rendered, client,
                   text, prompt, result, flashcards, mcq_section, card>>

\* summarize_full_text(client, text), memoized by st.cache_data on text
\* (the parameter _client is left out of the key).
Summarize ==
    /\ pc = "summarize"
    /\ IF Cached(summaryCache, text)
       THEN /\ full_summary' = Lookup(summaryCache, text)
            /\ calls' = Append(calls, "summarize")
            /\ UNCHANGED summaryCache
       ELSE /\ \E ok \in BOOLEAN :
                 /\ full_summary' = IF ok THEN SummaryOf(text) ELSE SummaryError("E")
                 /\ calls' = calls \o <<"summarize", "summarize:request">>
                               \o (IF ok THEN <<>> ELSE <<"summarize:error">>)
            /\ summaryCache' = summaryCache \cup {<<text, full_summary'>>}
    /\ pc' = "generate"
    /\ UNCHANGED <<session, widgets, extractCache, trigger, rendered, client,
                   text, prompt, result, flashcards, mcq_section, card>>

\* The prompt asking for as many flashcards as MCQs.
BuildPromptCardsFollow(summary, n) ==
    [summary |-> summary, mcqs |-> n, flashcards |-> n]

\* The prompt of generate_quiz_flashcards (lines 65-85).
BuildPrompt(summary, n) ==
    [summary |-> summary, mcqs |-> n, flashcards |-> NumFlashcards]

\* Generate without the `except` of lines 95-96: the exception leaves main().
GenerateRaising ==
    /\ pc = "generate"
    /\ prompt' = BuildPrompt(full_summary, num_questions)
    /\ \/ \E r \in Completions :
             /\ result' = r
             /\ calls' = calls \o <<"generate", "generate:request">>
             /\ pc' = "parse"
             /\ UNCHANGED rendered
       \/ \E e \in ErrMsgs :
             /\ result' = <<>>
             /\ calls' = calls \o <<"generate", "generate:request", "generate:error">>
             /\ Crash
    /\ UNCHANGED <<session, widgets, caches, trigger, client, text,
                   full_summary, flashcards, mcq_section, card>>

\* Generate sending the request again after a failure.
GenerateRetrying ==
    /\ pc = "generate"
    /\ prompt' = BuildPrompt(full_summary, num_questions)
    /\ \/ \E r \in Completions :
             /\ result' = r
             /\ calls' = calls \o <<"generate", "generate:request">>
       \/ \E r \in Completions :
             /\ result' = r
             /\ calls' = calls \o <<"generate", "generate:request", "generate:error",
                                    "generate:request">>
    /\ pc' = "parse"
    /\ UNCHANGED <<session, widgets, caches, trigger, rendered, client, text,
                   full_summary, flashcards, mcq_section, card>>

\* generate_quiz_flashcards(client, full_summary, num_questions): not memoized.
Generate ==
    /\ pc = "generate"
    /\ prompt' = BuildPrompt(full_summary, num_questions)
    /\ \/ \E r \in Completions :
             /\ result' = r
             /\ calls' = calls \o <<"generate", "generate:request">>
       \/ \E e \in ErrMsgs :
             /\ result' = QuizError(e)
             /\ calls' = calls \o <<"generate", "generate:request", "generate:error">>
    /\ pc' = "parse"
    /\ UNCHANGED <<session, widgets, caches, trigger, rendered, client, text,
                   full_summary, flashcards, mcq_section, card>>

\* Line 122 and lines 130-133.
Parse ==
    /\ pc = "parse"
    /\ flashcards' = parse_flashcards(result)
    /\ mcq_section' = McqSearch(result)
    /\ calls' = Append(calls, "parse")
    /\ pc' = "deck"
    /\ UNCHANGED <<session, widgets, caches, trigger, rendered, client, text,
                   full_summary, prompt, result, card>>

\* The deck section entered whatever the deck.
DeckShownAlways(deck) == TRUE
\* `if flashcards:`
DeckShown(deck) == deck # <<>>

\* flashcards[i] raises IndexError unless -len <= i < len.
InRange(i, deck) == -Len(deck) <= i /\ i < Len(deck)
\* flashcards[i]
Index(deck, i) == IF i >= 0 THEN deck[i + 1] ELSE deck[Len(deck) + i + 1]

\* Lines 135-139.
ShowCard ==
    /\ pc = "deck"
    /\ IF ~DeckShown(flashcards)
       THEN EndRun({}) /\ UNCHANGED card
       ELSE IF InRange(current_card_index, flashcards)
            THEN /\ card' = <<Index(flashcards, current_card_index)>>
                 /\ pc' = "buttons"
                 /\ UNCHANGED rendered
            ELSE Crash /\ UNCHANGED card
    /\ UNCHANGED <<session, widgets, caches, trigger, client, text,
                   full_summary, prompt, result, flashcards, mcq_section, calls>>

\* The face button lines 141-150 render.
FaceButton(shown) == IF shown THEN "Show Question" ELSE "Show Answer"

\* Python's a % n for n > 0: the result has the sign of n.
PyMod(a, n) == a % n

\* PreviousIndex without the wrap-around.
PreviousIndexNoWrap(i, n) == i - 1
\* Line 155.
PreviousIndex(i, n) == PyMod(i - 1, n)
\* NextIndex without the wrap-around.
NextIndexNoWrap(i, n) == i + 1
\* Line 160.
NextIndex(i, n) == PyMod(i + 1, n)

\* ShowAnswerClick with the wrong face stored.
ShowAnswerClickWrongFace ==
    /\ pc = "buttons"
    /\ ~show_answer
    /\ trigger = "Show Answer"
    /\ show_answer' = FALSE
    /\ UNCHANGED current_card_index
    /\ StartRun("rerun:Show Answer")
    /\ UNCHANGED <<widgets, caches>>

\* Lines 143-145.
ShowAnswerClick ==
    /\ pc = "buttons"
    /\ ~show_answer
    /\ trigger = "Show Answer"
    /\ show_answer' = TRUE
    /\ UNCHANGED current_card_index
    /\ StartRun("rerun:Show Answer")
    /\ UNCHANGED <<widgets, caches>>

\* ShowQuestionClick going back to the first card.
ShowQuestionClickFirstCard ==
    /\ pc = "buttons"
    /\ show_answer
    /\ trigger = "Show Question"
    /\ show_answer' = FALSE
    /\ current_card_index' = 0
    /\ StartRun("rerun:Show Question")
    /\ UNCHANGED <<widgets, caches>>

\* Lines 148-150.
ShowQuestionClick ==
    /\ pc = "buttons"
    /\ show_answer
    /\ trigger = "Show Question"
    /\ show_answer' = FALSE
    /\ UNCHANGED current_card_index
    /\ StartRun("rerun:Show Question")
    /\ UNCHANGED <<widgets, caches>>

\* Lines 154-157.
PreviousClick ==
    /\ pc = "buttons"
    /\ trigger = "Previous"
    /\ current_card_index' = PreviousIndex(current_card_index, Len(flashcards))
    /\ show_answer' = FALSE
    /\ StartRun("rerun:Previous")
    /\ UNCHANGED <<widgets, caches>>

\* Lines 159-162.
NextClick ==
    /\ pc = "buttons"
    /\ trigger = "Next"
    /\ current_card_index' = NextIndex(current_card_index, Len(flashcards))
    /\ show_answer' = FALSE
    /\ StartRun("rerun:Next")
    /\ UNCHANGED <<widgets, caches>>

\* The buttons lines 141-162 put on screen.
Buttons == {FaceButton(show_answer), "Previous", "Next"}

\* No button of lines 141-162 was pressed: the run reaches its end.
NoClick ==
    /\ pc = "buttons"
    /\ trigger \notin Buttons
    /\ EndRun(Buttons)
    /\ UNCHANGED <<session, widgets, caches, trigger, locals>>

-----------------------------------------------------------------------------
(* The user, between script runs *)

Waiting == pc \in {"idle", "crashed"}

\* A file is put into st.file_uploader.
Upload(d) ==
    /\ Waiting
    /\ uploaded_file' = d
    /\ StartRun("upload")
    /\ UNCHANGED <<session, num_questions, caches>>

\* The file is taken out of st.file_uploader.
RemoveFile ==
    /\ Waiting
    /\ uploaded_file # None
    /\ uploaded_file' = None
    /\ StartRun("upload")
    /\ UNCHANGED <<session, num_questions, caches>>

\* The slider is moved.
MoveSlider(n) ==
    /\ Waiting
    /\ n # num_questions
    /\ num_questions' = n
    /\ StartRun("slider")
    /\ UNCHANGED <<session, uploaded_file, caches>>

\* A button on screen is pressed.
Press(b) ==
    /\ Waiting
    /\ b \in rendered
    /\ StartRun(b)
    /\ UNCHANGED <<session, widgets, caches>>

Next ==
    \/ GetClient
    \/ Extract
    \/ Summarize
    \/ Generate
    \/ Parse
    \/ ShowCard
    \/ ShowAnswerClick
    \/ ShowQuestionClick
    \/ PreviousClick
    \/ NextClick
    \/ NoClick
    \/ \E d \in Docs : Upload(d)
    \/ RemoveFile
    \/ \E n \in SliderValues : MoveSlider(n)
    \/ \E b \in {"Show Answer", "Show Question", "Previous", "Next"} : Press(b)

Spec == Init /\ [][Next]_vars

-----------------------------------------------------------------------------
(* Properties *)

\* The current script run has done ev.
Did(ev) == \E i \in 1..Len(calls) : calls[i] = ev

\* The current run has parsed the deck of its generation request.
DeckParsed == Did("parse")

\* A step in which the handler of button b runs (and calls st.rerun()).
Handled(b) == pc = "buttons" /\ trigger = b /\ pc' = "client"

\* C1: whenever the deck of the current generation is non-empty, the card
\* index is within it: 0 <= current_card_index < len(flashcards).
C1_IndexWithinDeck ==
    (DeckParsed /\ flashcards # <<>>) =>
        (0 <= current_card_index /\ current_card_index < Len(flashcards))

\* C2: when a new deck has been generated for a newly uploaded document, the
\* navigator shows it from (index 0, question face), whatever index and face
\* the previous deck was left at.  (The claim speaks of every new generation;
\* this is its case of a new document.)
C2_ResetOnNewDeck ==
    (pc = "buttons" /\ trigger = "upload") =>
        (current_card_index = 0 /\ ~show_answer)

\* C3: with an empty parsed deck the navigator is not entered: no card is
\* indexed, no navigation button is rendered or handled, and the run ends
\* without an exception.
C3_EmptyDeckNoNavigation ==
    (DeckParsed /\ flashcards = <<>>) =>
        /\ pc \in {"deck", "idle"}
        /\ card = <<>>
        /\ rendered = {}
        /\ ~ENABLED (ShowAnswerClick \/ ShowQuestionClick \/ PreviousClick \/ NextClick)

\* A "Next" press whose rerun parsed an empty deck: the press is dropped.
C3_Witness ==
    pc = "idle" /\ trigger = "Next" /\ DeckParsed /\ flashcards = <<>>

\* i after k presses of "Next" on a deck of n cards.
RECURSIVE NextTimes(_, _, _)
NextTimes(i, n, k) == IF k = 0 THEN i ELSE NextTimes(NextIndex(i, n), n, k - 1)

\* C4: on a deck of n >= 1 cards at index 0 <= i < n, "Next" leaves
\* ((i + 1) mod n, question face), and n presses on that deck lead back to i.
C4_NextWraps ==
    /\ [][Handled("Next") =>
            /\ 0 <= current_card_index /\ current_card_index < Len(flashcards)
            /\ current_card_index' = (current_card_index + 1) % Len(flashcards)
            /\ show_answer' = FALSE]_vars
    /\ [](pc = "buttons" =>
            NextTimes(current_card_index, Len(flashcards), Len(flashcards))
                = current_card_index)

\* "Next" on the last card of a deck has led back to the first, from the
\* answer face or not.
C4_Witness ==
    pc = "client" /\ trigger = "rerun:Next" /\ current_card_index = 0

\* C5: on a deck of n >= 1 cards at index 0 <= i < n, "Previous" leaves
\* ((i - 1 + n) mod n, question face): n - 1 from index 0, never a negative
\* index.
C5_PreviousWraps ==
    /\ [][Handled("Previous") =>
            /\ 0 <= current_card_index /\ current_card_index < Len(flashcards)
            /\ current_card_index' =
                  (current_card_index - 1 + Len(flashcards)) % Len(flashcards)
            /\ (current_card_index = 0 => current_card_index' = Len(flashcards) - 1)
            /\ show_answer' = FALSE]_vars
    /\ [](current_card_index >= 0)

\* "Previous" on the first card of the five-card deck has led to its last.
C5_Witness ==
    pc = "client" /\ trigger = "rerun:Previous"
        /\ current_card_index = NumFlashcards - 1

\* C6: flipAnswer leaves the answer face at the same index, and on the answer
\* face it cannot be performed again: "Show Answer" is neither on screen nor
\* handled while show_answer holds.
C6_FlipAnswerIdempotent ==
    /\ [][Handled("Show Answer") =>
            /\ show_answer' = TRUE
            /\ current_card_index' = current_card_index]_vars
    /\ [](show_answer =>
            /\ "Show Answer" \notin rendered
            /\ ~ENABLED ShowAnswerClick)

\* "Show Answer" has been handled on a card other than the first.
C6_Witness ==
    pc = "client" /\ trigger = "rerun:Show Answer" /\ show_answer
        /\ current_card_index > 0

\* C7: when the extraction fails, the text is empty, the error is shown and
\* the Summarizer is not invoked in that run.
C7_NoSummaryAfterFailedExtraction ==
    Did("extract:error") => (text = "" /\ ~Did("summarize"))

\* C8: without a client (no API key, or OpenAI() raised) the run extracts
\* nothing and calls neither completion.
C8_NoClientNoCalls ==
    client = "None" =>
        /\ calls = <<>>
        /\ pc = "idle"
        /\ text = "unset" /\ full_summary = <<>> /\ prompt = NoPrompt /\ result = <<>>
        /\ ~ENABLED (Extract \/ Summarize \/ Generate)

\* A run with a file uploaded and no client has ended.
C8_Witness ==
    pc = "idle" /\ client = "None" /\ uploaded_file # None

\* C9: when the generation request fails, generate returns the string that
\* embeds the error, the deck parsed from it is empty and the MCQ section
\* absent, the navigator is not entered and no exception leaves the run.
C9_GenerationFailureContained ==
    Did("generate:error") =>
        /\ \E e \in ErrMsgs : result = QuizError(e)
        /\ pc \in {"parse", "deck", "idle"}
        /\ DeckParsed => (flashcards = <<>> /\ mcq_section = <<>>)
        /\ card = <<>>
        /\ rendered = {}

\* A run whose generation request failed has ended.
C9_Witness ==
    pc = "idle" /\ Did("generate:error") /\ DeckParsed

\* The results of the model that follow the template with five flashcard
\* lines, with and without a newline after the last one.
WellFormedResults ==
    {Template(<<"S">>, <<"Q1">>, <<NL>>, FiveCards, nl) : nl \in BOOLEAN}

\* C10: from a result that follows the template with five flashcard lines,
\* parse_flashcards yields 5 cards and the MCQ section is a non-empty string,
\* also when the text ends right after the last flashcard line.
C10_WellFormedParses ==
    (DeckParsed /\ result \in WellFormedResults) =>
        /\ Len(flashcards) = NumFlashcards
        /\ mcq_section # <<>>
        /\ mcq_section # <<<<>>>>

-----------------------------------------------------------------------------
(* The parser on its own: a run that has received an arbitrary result *)

\* The most flashcard lines of a parser input.
MaxLines == 2
\* The longest text over the section markers, in tokens.
MaxMarkerLen == 5

\* How a flashcard line may be written: its two sides, the blanks around
\* "Front:", "|" and "Back:", and the blanks before its newline.
LineShapes ==
    [q : {<<"A">>, <<"C", SP, "D">>}, a : {<<"B">>},
     pad : {<<>>, <<SP>>}, trail : {<<>>, <<SP>>}]

\* A flashcard line with its newline.
ShapedLine(l) ==
    <<FRONT>> \o l.pad \o l.q \o l.pad \o <<BAR>> \o l.pad \o <<BACK>>
        \o l.pad \o l.a \o l.trail \o <<NL>>

RECURSIVE ConcatLines(_)
ConcatLines(ls) ==
    IF ls = <<>> THEN <<>> ELSE ShapedLine(Head(ls)) \o ConcatLines(Tail(ls))

\* A result with the flashcard lines ls, each ended by a newline.
CardText(ls) ==
    <<H_MCQ, NL, "Q1", NL, H_FLASHCARDS, NL>> \o ConcatLines(ls)

LineSeqs == SeqsUpTo(LineShapes, MaxLines)

\* Every text of at most MaxMarkerLen tokens over the two markers, the
\* newline and a word.
MarkerTexts == SeqsUpTo({H_MCQ, H_FLASHCARDS, NL, "Q"}, MaxMarkerLen)

ParserInputs ==
    {CardText(ls) : ls \in LineSeqs} \cup MarkerTexts \cup Completions

\* A script run at line 122: the generation call has returned r.
ParserInit ==
    /\ show_answer = InitShowAnswer
    /\ current_card_index = InitCardIndex
    /\ uploaded_file = "pdf"
    /\ num_questions = DefaultQuestions
    /\ extractCache = {<<"pdf", PageText("pdf")>>}
    /\ summaryCache = {<<PageText("pdf"), SummaryOf(PageText("pdf"))>>}
    /\ pc = "parse"
    /\ trigger = "upload"
    /\ rendered = {}
    /\ client = "OpenAI"
    /\ text = PageText("pdf")
    /\ full_summary = SummaryOf(PageText("pdf"))
    /\ prompt = BuildPrompt(SummaryOf(PageText("pdf")), DefaultQuestions)
    /\ result \in ParserInputs
    /\ flashcards = <<>>
    /\ mcq_section = <<>>
    /\ card = <<>>
    /\ calls = <<"extract", "extract:read", "summarize", "summarize:request",
                 "generate", "generate:request">>

ParserNext == Parse

ParserSpec == ParserInit /\ [][ParserNext]_vars

\* The deck the lines ls stand for.
DeckOf(ls) == [i \in 1..Len(ls) |-> [question |-> ls[i].q, answer |-> ls[i].a]]

\* C11: parse_flashcards gives one {question, answer} pair per newline-ended
\* "Front: q | Back: a" line, in the order of the lines and without the
\* blanks around q and a, and the MCQ section is the text between the two
\* markers; the literal of the round-trip property gives [{A,B},{C,D}] and
\* "Q1".
C11_OnePairPerLine ==
    DeckParsed =>
        /\ result = TwoCardText =>
              /\ flashcards = <<[question |-> <<"A">>, answer |-> <<"B">>],
                                [question |-> <<"C">>, answer |-> <<"D">>]>>
              /\ mcq_section = <<<<"Q1">>>>
        /\ \A ls \in LineSeqs :
              result = CardText(ls) =>
                  /\ flashcards = DeckOf(ls)
                  /\ mcq_section = <<<<"Q1">>>>

\* Two lines written with blanks before their newlines have been parsed.
C11_Witness ==
    /\ DeckParsed
    /\ \E ls \in LineSeqs :
          /\ Len(ls) = 2 /\ ls[1].trail = <<SP>> /\ ls[2].q = <<"C", SP, "D">>
          /\ result = CardText(ls)
    /\ Len(flashcards) = 2

\* Token k occurs in t.
Occurs(t, k) == \E i \in 1..Len(t) : t[i] = k

\* C12: the MCQ section is absent when "## Multiple Choice Questions" is
\* missing, when "## Flashcards" is missing, and when "## Flashcards" stands
\* only before "## Multiple Choice Questions"; there is a section only when
\* both occur in that order.  The run goes on without an error.
C12_McqAbsent ==
    DeckParsed =>
        /\ ~Occurs(result, H_MCQ) => mcq_section = <<>>
        /\ ~Occurs(result, H_FLASHCARDS) => mcq_section = <<>>
        /\ mcq_section # <<>> =>
              \E i \in 1..Len(result), j \in 1..Len(result) :
                  i < j /\ result[i] = H_MCQ /\ result[j] = H_FLASHCARDS
        /\ pc = "deck"

\* Both markers occur, "## Flashcards" only first: no section.
C12_Witness ==
    /\ DeckParsed
    /\ mcq_section = <<>>
    /\ result = <<H_FLASHCARDS, NL, H_MCQ, NL, "Q">>

\* The number of occurrences of ev in what the current run has done.
Count(ev) == Cardinality({i \in 1..Len(calls) : calls[i] = ev})

\* The step in which the current run does ev for the first time.
Does(ev) == ~Did(ev) /\ \E i \in 1..Len(calls') : calls'[i] = ev

\* C13: the prompt asks for num_questions MCQs and for 5 flashcards,
\* whatever num_questions is (7 MCQs and 5 flashcards for 7).
C13_PromptCounts ==
    /\ Did("generate:request") =>
          (prompt.mcqs = num_questions /\ prompt.flashcards = 5)
    /\ \A n \in MinQuestions..MaxQuestions :
          /\ BuildPrompt(full_summary, n).mcqs = n
          /\ BuildPrompt(full_summary, n).flashcards = 5

\* The generation request was sent with the slider at 7.
C13_Witness ==
    Did("generate:request") /\ num_questions = 7 /\ prompt.mcqs = 7
        /\ prompt.flashcards = 5

\* The interactions of the navigator, and the reruns their handlers ask for.
NavTriggers ==
    {"Show Answer", "Show Question", "Previous", "Next",
     "rerun:Show Answer", "rerun:Show Question", "rerun:Previous", "rerun:Next"}

\* C14: a navigation operation issues no generation request (the deck of the
\* uploaded document stays as it is).
C14_NavigationKeepsDeck ==
    trigger \in NavTriggers => ~Did("generate:request")

\* The stages the current run has called, in the order of the calls.
Stages == SelectSeq(calls, LAMBDA ev : ev \in {"extract", "summarize", "generate", "parse"})

\* C15: the stages of a run are called in the order extract, summarize,
\* generate, parse, each on the output of the one before, and the run sends
\* each completion request at most once, also after a failure.
C15_StagesInOrder ==
    /\ \E k \in 0..4 : Stages = SubSeq(<<"extract", "summarize", "generate", "parse">>, 1, k)
    /\ Count("summarize:request") <= 1
    /\ Count("generate:request") <= 1
    /\ Did("extract") => <<uploaded_file, text>> \in extractCache
    /\ Did("summarize") => (Did("extract") /\ <<text, full_summary>> \in summaryCache)
    /\ Did("generate") => (Did("summarize") /\ prompt.summary = full_summary)
    /\ DeckParsed => (Did("generate") /\ Len(flashcards) <= Len(result))
    /\ pc = "extract" => Stages = <<>>
    /\ pc = "summarize" => Stages = <<"extract">>
    /\ pc = "generate" => Stages = <<"extract", "summarize">>
    /\ pc = "parse" => Stages = <<"extract", "summarize", "generate">>

\* Both completion requests of a run failed and the run went on to parse.
C15_Witness ==
    /\ DeckParsed
    /\ Did("summarize:error") /\ Did("generate:error")
    /\ Count("summarize:request") = 1 /\ Count("generate:request") = 1

\* C16: a failed summarization request raises nothing: full_summary is the
\* string with the error, and the generation request is sent with that
\* string as the summary of its prompt.
C16_SummaryFailureFeedsPrompt ==
    Did("summarize:error") =>
        /\ full_summary = SummaryError("E")
        /\ pc = "generate" \/ Did("generate")
        /\ pc = "generate" => ENABLED Generate
        /\ Did("generate") =>
              (Did("generate:request") /\ prompt.summary = SummaryError("E"))

\* The generation request was sent with the error string as its summary.
C16_Witness ==
    Did("summarize:error") /\ Did("generate:request")
        /\ prompt.summary = SummaryError("E")

\* C17: "Show Answer" and "Show Question" change the face only, the one
\* undoing the other: Show Answer leads from (i, question) to (i, answer),
\* Show Question from (i, answer) back to (i, question).
C17_FlipsKeepIndex ==
    /\ [][Handled("Show Answer") =>
            /\ ~show_answer /\ show_answer'
            /\ current_card_index' = current_card_index
            /\ UNCHANGED <<uploaded_file, num_questions>>]_vars
    /\ [][Handled("Show Question") =>
            /\ show_answer /\ ~show_answer'
            /\ current_card_index' = current_card_index
            /\ UNCHANGED <<uploaded_file, num_questions>>]_vars

\* "Show Question" has led back to the question of a card other than the
\* first.
C17_Witness ==
    pc = "client" /\ trigger = "rerun:Show Question" /\ ~show_answer
        /\ current_card_index > 0

\* C18: the stream of an uploaded file is read only when the file has no
\* entry in the store of extract_text_from_pdf, the read leaves an entry, and
\* entries stay: one read per file, later runs take the text from the store.
C18_StreamReadOnce ==
    /\ [][Does("extract:read") =>
            /\ ~Cached(extractCache, uploaded_file)
            /\ <<uploaded_file, text'>> \in extractCache']_vars
    /\ [][Does("extract") =>
            (Cached(extractCache, uploaded_file) =>
                /\ ~Does("extract:read")
                /\ text' = Lookup(extractCache, uploaded_file))]_vars
    /\ [][extractCache \subseteq extractCache']_vars

\* A later run has taken the text of the file from the store.
C18_Witness ==
    Did("extract") /\ ~Did("extract:read") /\ text = PageText("pdf")

\* C19: the summarization request is sent only for a text without an entry
\* in the store of summarize_full_text, what the call returns (the error
\* string too) becomes the entry of the text, entries stay, and a run whose
\* text has an entry gets that entry.
C19_SummaryMemoized ==
    /\ [][Does("summarize:request") =>
            /\ ~Cached(summaryCache, text)
            /\ <<text, full_summary'>> \in summaryCache']_vars
    /\ [][Does("summarize") =>
            (Cached(summaryCache, text) =>
                /\ ~Does("summarize:request")
                /\ full_summary' = Lookup(summaryCache, text))]_vars
    /\ [][summaryCache \subseteq summaryCache']_vars
    /\ [](\A e1 \in summaryCache, e2 \in summaryCache : e1[1] = e2[1] => e1 = e2)

\* A later run has got the error string of the first call from the store.
C19_Witness ==
    Did("summarize") /\ ~Did("summarize:request")
        /\ full_summary = SummaryError("E")

====
